---- MODULE Spec2Model ----
(***************************************************************************)
(* Model of src/src/functions.py: the column classifier                    *)
(* (extract_categorical_cols, extract_numerical_cols), the cardinality     *)
(* filter (drop_cols_no_cardinality), the correlation engine               *)
(* (calculate_pair_wise_correlation), the association screener             *)
(* (calculate_pair_wise_chi_square_test) and the standardizer              *)
(* (standardize_numeric_variables).                                        *)
(*                                                                         *)
(* A table (pandas DataFrame) is a sequence of columns; a column is a      *)
(* record [name, dtype, vals]; vals is a sequence of cells, one per row.   *)
(* A cell is [nan, v]: a present number v, or the missing value NaN.       *)
(***************************************************************************)
EXTENDS Integers, Sequences, FiniteSets

\* ------------------------------------------------------------------ bounds
MaxCols == 3    \* most columns of an input table
NRows == 2      \* rows of every table
PScale == 2     \* p-values and thresholds are the levels 0/PScale .. PScale/PScale

\* ------------------------------------------------------------------ data
Cell(v) == [nan |-> FALSE, v |-> v]
NaN == [nan |-> TRUE, v |-> 0]

\* The column names of the test table, test_functions.py:10-14.
Names == {"Age", "PatientID", "Category1", "Category2", "NumericCol"}

\* The code points of a column name: Python compares str by code point.
Chars(name) ==
  CASE name = "Age" -> <<65, 103, 101>>
    [] name = "PatientID" -> <<80, 97, 116, 105, 101, 110, 116, 73, 68>>
    [] name = "Category1" -> <<67, 97, 116, 101, 103, 111, 114, 121, 49>>
    [] name = "Category2" -> <<67, 97, 116, 101, 103, 111, 114, 121, 50>>
    [] name = "NumericCol" -> <<78, 117, 109, 101, 114, 105, 99, 67, 111, 108>>

\* Storage types: "int" is int64, "float" is float64, "object" holds text.
ConstVals == [i \in 1..NRows |-> Cell(0)]
AltVals == [i \in 1..NRows |-> Cell(i % 2)]
RampVals == [i \in 1..NRows |-> Cell(i)]
GapVals == [i \in 1..NRows |-> IF i = 1 THEN Cell(1) ELSE NaN]

\* The (dtype, values) an input column is drawn from.  An int64 column cannot
\* hold NaN; a float64 column can.
ColumnData ==
  { <<"int", ConstVals>>, <<"int", AltVals>>,
    <<"float", RampVals>>, <<"float", GapVals>>,
    <<"object", ConstVals>> }

Column(name, data) == [name |-> name, dtype |-> data[1], vals |-> data[2]]

ColNames(t) == [i \in 1..Len(t) |-> t[i].name]

NameSet(t) == {t[i].name : i \in 1..Len(t)}

UniqueNames(t) == \A i, j \in 1..Len(t) : t[i].name = t[j].name => i = j

\* The column names of a table of n columns: unique within a table (spec
\* section 3).
Headers(n) == {f \in [1..n -> Names] : \A i, j \in 1..n : f[i] = f[j] => i = j}

MakeTable(n, ns, ds) == [i \in 1..n |-> Column(ns[i], ds[i])]

\* The data the association screener is run on: integer columns, constant or
\* not, among float columns.
ScreenedData == { <<"int", ConstVals>>, <<"int", AltVals>>, <<"float", RampVals>> }

\* ------------------------------------------------------- pandas primitives
RECURSIVE Concat(_, _)
\* The concatenation of the sequences f[1], ..., f[n].
Concat(f, n) == IF n = 0 THEN <<>> ELSE Concat(f, n - 1) \o f[n]

HasDtype(col, dtype) == col.dtype = dtype

\* DataFrame.select_dtypes(include=dtype): the columns of that storage type,
\* by position, in their original order.
SelectDtypes(t, dtype) ==
  Concat([i \in 1..Len(t) |-> IF HasDtype(t[i], dtype) THEN <<t[i]>> ELSE <<>>], Len(t))

\* The columns of t labelled key, in table order (all of them when the label
\* is not unique).
Labelled(t, key) ==
  Concat([i \in 1..Len(t) |-> IF t[i].name = key THEN <<t[i]>> ELSE <<>>], Len(t))

\* Mutant of GetItem: a lookup that skips the labels the table does not have.
GetItemIfPresent(t, keys) ==
  [err |-> "none",
   table |-> Concat([k \in 1..Len(keys) |-> Labelled(t, keys[k])], Len(keys))]

\* DataFrame.__getitem__(list of labels): for each label in list order the
\* columns carrying it; KeyError when a label is not in the table.
GetItem(t, keys) ==
  IF \E k \in 1..Len(keys) : keys[k] \notin NameSet(t)
  THEN [err |-> "KeyError", table |-> <<>>]
  ELSE [err |-> "none",
        table |-> Concat([k \in 1..Len(keys) |-> Labelled(t, keys[k])], Len(keys))]

\* ------------------------------------------------------- column classifier
\* Mutant of ExcludedFromCategorical: the identifier column is forgotten.
ExcludedAgeOnly == {"Age"}

\* functions.py:21, the names the list comprehension leaves out.
ExcludedFromCategorical == {"Age", "PatientID"}

\* functions.py:21, the list comprehension over dataset_cat.columns.
CategoricalKeys(t) ==
  Concat([i \in 1..Len(t) |->
            IF t[i].name \notin ExcludedFromCategorical THEN <<t[i].name>> ELSE <<>>],
         Len(t))

extract_categorical_cols(dataset) ==
  LET dataset_cat == SelectDtypes(dataset, "int")
  IN GetItem(dataset_cat, CategoricalKeys(dataset_cat))

\* Mutant of NumericalKeys: Age is put in front of the float columns.
NumericalKeysAgeFirst(dataset_num) == <<"Age">> \o ColNames(dataset_num)

\* functions.py:39, list(dataset_num.columns) + ['Age'].
NumericalKeys(dataset_num) == ColNames(dataset_num) \o <<"Age">>

extract_numerical_cols(dataset) ==
  LET dataset_num == SelectDtypes(dataset, "float")
  IN GetItem(dataset, NumericalKeys(dataset_num))

\* ------------------------------------------------------- cardinality filter
\* Series.nunique(): the number of distinct values, missing values not counted
\* (dropna=True is the default).
NUnique(col) ==
  Cardinality({col.vals[i].v : i \in {r \in 1..Len(col.vals) : ~col.vals[r].nan}})

\* Mutant of NoCardinality: only a column without any value is dropped.
NoCardinalityEmptyOnly(col) == NUnique(col) < 1

\* functions.py:104, the test that puts a column on cols_to_drop.
NoCardinality(col) == NUnique(col) <= 1

\* dataset[col] is a DataFrame when the label col is not unique; its nunique()
\* is then a Series, and the comparison's truth value raises ValueError.
drop_cols_no_cardinality(dataset) ==
  IF ~UniqueNames(dataset)
  THEN [err |-> "ValueError", table |-> <<>>]
  ELSE [err |-> "none",
        table |-> Concat([i \in 1..Len(dataset) |->
                            IF NoCardinality(dataset[i]) THEN <<>> ELSE <<dataset[i]>>],
                         Len(dataset))]

\* ------------------------------------------------------------ arithmetic
RECURSIVE SumOver(_, _)
\* The sum of f[r] over the rows r of the finite set S.
SumOver(f, S) ==
  IF S = {} THEN 0
  ELSE LET r == CHOOSE x \in S : TRUE IN f[r] + SumOver(f, S \ {r})

Abs(x) == IF x < 0 THEN -x ELSE x

RECURSIVE Gcd(_, _)
Gcd(a, b) == IF b = 0 THEN a ELSE Gcd(b, a % b)

RECURSIVE GcdOver(_, _)
GcdOver(f, S) ==
  IF S = {} THEN 0
  ELSE LET r == CHOOSE x \in S : TRUE IN Gcd(Abs(f[r]), GcdOver(f, S \ {r}))

\* The rows where the column holds a value.
Present(col) == {r \in 1..Len(col.vals) : ~col.vals[r].nan}

\* ------------------------------------------------------------ standardizer
\* StandardScaler.fit_transform on one column: z = (x - mean) / std with the
\* population std over the present rows; a zero std is replaced by 1 (sklearn's
\* _handle_zeros_in_scale), so a constant column becomes all 0; NaN stays NaN.
\* With n present rows of sum s, w = n*x - s and g = gcd of the |w|, the cell
\* holds e = w / g, which stands for z = e * sqrt(n / sum of e^2): z is exactly
\* recoverable from the column, and scaling a column by a positive factor does
\* not change what the scaler or Pearson's r make of it.
StandardScale(col) ==
  LET P == Present(col)
      n == Cardinality(P)
      x == [r \in 1..Len(col.vals) |-> col.vals[r].v]
      s == SumOver(x, P)
      w == [r \in 1..Len(col.vals) |-> n * x[r] - s]
      g == GcdOver(w, P)
  IN [name |-> col.name, dtype |-> "float",
      vals |-> [r \in 1..Len(col.vals) |->
                  IF r \notin P THEN NaN
                  ELSE IF g = 0 THEN Cell(0) ELSE Cell(w[r] \div g)]]

\* check_array raises ValueError on a column of text (only Age can bring one
\* into the numerical subset).
standardize_numeric_variables(dataset) ==
  LET dataset_numeric == extract_numerical_cols(dataset)
      t == dataset_numeric.table
  IN IF dataset_numeric.err # "none" THEN dataset_numeric
     ELSE IF \E i \in 1..Len(t) : t[i].dtype = "object"
     THEN [err |-> "ValueError", table |-> <<>>]
     ELSE [err |-> "none", table |-> [i \in 1..Len(t) |-> StandardScale(t[i])]]

\* ------------------------------------------------------ correlation engine
RECURSIVE LargestHundredth(_, _, _, _)
\* The largest m in lo..hi with (2m-1)/200 <= sqrt(num/den), by bisection:
\* |r| rounded to two decimals, in hundredths (lo = 0 always qualifies).
LargestHundredth(lo, hi, num, den) ==
  IF lo = hi THEN lo
  ELSE LET mid == (lo + hi + 1) \div 2
       IN IF (2 * mid - 1) * (2 * mid - 1) * den <= 40000 * num
          THEN LargestHundredth(mid, hi, num, den)
          ELSE LargestHundredth(lo, mid - 1, num, den)

\* Pearson's r of two columns over the rows present in both, rounded to two
\* decimals and held in hundredths; NaN when either variance is 0 (pandas
\* nancorr leaves the cell NaN when the divisor is 0).  r = sxy / sqrt(sxx*syy)
\* is compared on squares, so no root is taken.
PearsonHundredths(x, y) ==
  LET P == Present(x) \cap Present(y)
      n == Cardinality(P)
      xv == [r \in 1..Len(x.vals) |-> x.vals[r].v]
      yv == [r \in 1..Len(y.vals) |-> y.vals[r].v]
      sx == SumOver(xv, P)
      sy == SumOver(yv, P)
      sxx == n * SumOver([r \in 1..Len(x.vals) |-> xv[r] * xv[r]], P) - sx * sx
      syy == n * SumOver([r \in 1..Len(y.vals) |-> yv[r] * yv[r]], P) - sy * sy
      sxy == n * SumOver([r \in 1..Len(x.vals) |-> xv[r] * yv[r]], P) - sx * sy
      mag == LargestHundredth(0, 100, sxy * sxy, sxx * syy)
  IN IF sxx * syy = 0 THEN NaN
     ELSE Cell(IF sxy < 0 THEN -mag ELSE mag)

NoMatrix == [labels |-> <<>>, cells |-> <<>>]

\* DataFrame.corr(method='pearson') raises ValueError on a column of text
\* (pandas 2: numeric_only defaults to False).
calculate_pair_wise_correlation(dataset) ==
  LET dataset_numeric == extract_numerical_cols(dataset)
      t == dataset_numeric.table
  IN IF dataset_numeric.err # "none"
     THEN [err |-> dataset_numeric.err, matrix |-> NoMatrix]
     ELSE IF \E i \in 1..Len(t) : t[i].dtype = "object"
     THEN [err |-> "ValueError", matrix |-> NoMatrix]
     ELSE [err |-> "none",
           matrix |-> [labels |-> ColNames(t),
                       cells |-> [i \in 1..Len(t) |->
                                    [j \in 1..Len(t) |-> PearsonHundredths(t[i], t[j])]]]]

\* ----------------------------------------------------- association screener
\* Mutant of Combinations2: itertools.permutations(columns, 2).
Permutations2(columns) ==
  LET n == Len(columns)
      from(i) == Concat([j \in 1..n |-> IF i # j THEN << <<columns[i], columns[j]>> >> ELSE <<>>], n)
  IN Concat([i \in 1..n |-> from(i)], n)

\* itertools.combinations(columns, 2): the pairs (columns[i], columns[j]) with
\* i < j, in lexicographic order of (i, j).
Combinations2(columns) ==
  LET n == Len(columns)
      from(i) == Concat([j \in 1..n |-> IF i < j THEN << <<columns[i], columns[j]>> >> ELSE <<>>], n)
  IN Concat([i \in 1..n |-> from(i)], n)

\* pd.crosstab(x, y): one row per distinct value of x, one column per distinct
\* value of y, the cell counting the records with that combination.
Crosstab(x, y) ==
  LET xs == {x.vals[r].v : r \in Present(x) \cap Present(y)}
      ys == {y.vals[r].v : r \in Present(x) \cap Present(y)}
  IN [index |-> xs, columns |-> ys,
      count |-> [c \in xs \X ys |->
                   Cardinality({r \in Present(x) \cap Present(y) :
                                  x.vals[r].v = c[1] /\ y.vals[r].v = c[2]})]]

DegreesOfFreedom(ct) == (Cardinality(ct.index) - 1) * (Cardinality(ct.columns) - 1)

\* scipy.stats.chi2_contingency(ct)[:2].  With 0 degrees of freedom scipy
\* returns chi2 = 0.0 and p = 1.0.  Otherwise the statistic is a level
\* 0..PScale and p its survival function, strictly decreasing from 1 to 0:
\* level is the value the library computes, left open.
chi2_contingency(ct, level) ==
  IF DegreesOfFreedom(ct) = 0
  THEN [chi2_stat |-> 0, p_val |-> PScale]
  ELSE [chi2_stat |-> level, p_val |-> PScale - level]

RECURSIVE LexLess(_, _)
\* a < b for Python sequences of code points.
LexLess(a, b) ==
  IF b = <<>> THEN FALSE
  ELSE IF a = <<>> THEN TRUE
  ELSE IF a[1] # b[1] THEN a[1] < b[1]
  ELSE LexLess(Tail(a), Tail(b))

\* Row order under sort_values(by=['first_col', 'second_col']).
RowLess(r, s) ==
  \/ LexLess(Chars(r.first_col), Chars(s.first_col))
  \/ /\ r.first_col = s.first_col
     /\ LexLess(Chars(r.second_col), Chars(s.second_col))

RECURSIVE Insert(_, _)
\* row put into the sorted frame df behind the rows not greater than it.
Insert(df, row) ==
  IF df = <<>> THEN <<row>>
  ELSE IF RowLess(row, df[Len(df)]) THEN Append(Insert(SubSeq(df, 1, Len(df) - 1), row), df[Len(df)])
  ELSE Append(df, row)

RECURSIVE InsertionSort(_, _)
InsertionSort(df, n) == IF n = 0 THEN <<>> ELSE Insert(InsertionSort(df, n - 1), df[n])

\* Mutant of SortValues: the frame is left in the order the rows were appended.
SortValuesSkipped(df) == df

\* output_df.sort_values(by=['first_col', 'second_col']): a stable sort.
SortValues(df) == InsertionSort(df, Len(df))

\* Mutant of Significant: a strict comparison.
SignificantStrict(p_val, p_value_threshold) == p_val < p_value_threshold

\* functions.py:84, the significance filter.
Significant(p_val, p_value_threshold) == p_val <= p_value_threshold

RECURSIVE ChiSquareLoop(_, _, _, _, _)
\* The state of the loop of functions.py:80-88 after its first k iterations:
\* the pairs tested so far with their results, and output_df.
ChiSquareLoop(dataset_categorical, pairs, k, p_value_threshold, level) ==
  IF k = 0 THEN [evaluated |-> <<>>, output_df |-> <<>>]
  ELSE
    LET before == ChiSquareLoop(dataset_categorical, pairs, k - 1, p_value_threshold, level)
        pair == pairs[k]
        contingency_table == Crosstab(Labelled(dataset_categorical, pair[1])[1],
                                      Labelled(dataset_categorical, pair[2])[1])
        res == chi2_contingency(contingency_table, level[{pair[1], pair[2]}])
        new_row == [first_col |-> pair[1], second_col |-> pair[2],
                    chi_square_stat |-> res.chi2_stat, p_value |-> res.p_val]
        appended == IF Significant(res.p_val, p_value_threshold)
                    THEN Append(before.output_df, new_row)
                    ELSE before.output_df
    IN [evaluated |-> Append(before.evaluated, new_row),
        output_df |-> SortValues(appended)]

calculate_pair_wise_chi_square_test(dataset, p_value_threshold, level) ==
  LET dataset_categorical == extract_categorical_cols(dataset).table
      pairs == Combinations2(ColNames(dataset_categorical))
  IN ChiSquareLoop(dataset_categorical, pairs, Len(pairs), p_value_threshold, level)

\* The statistics the library may compute for the pairs of a table.
Levels(dataset) ==
  LET cat == NameSet(extract_categorical_cols(dataset).table)
  IN [{{a, b} : <<a, b>> \in {c \in cat \X cat : c[1] # c[2]}} -> 0..PScale]

\* ------------------------------------------------------------------ state
VARIABLES
  table,      \* the table the next operation is applied to
  op,         \* the last operation called
  arg,        \* the table it was called on
  err,        \* "none", or the exception it raised
  ret,        \* the table it returned (<<>> when it raised or returns no table)
  threshold,  \* p_value_threshold of the last chi-square call, in 1/PScale
  evaluated,  \* the pairs that call tested, in order, with their results
  records,    \* the records that call returned
  matrix      \* the correlation matrix of the last correlation call

vars == <<table, op, arg, err, ret, threshold, evaluated, records, matrix>>

Loaded(data) ==
  \E n \in 0..MaxCols : \E ns \in Headers(n), ds \in [1..n -> data] :
    table = MakeTable(n, ns, ds)

Init ==
  /\ Loaded(ColumnData)
  /\ op = "load"
  /\ arg = <<>>
  /\ err = "none"
  /\ ret = <<>>
  /\ threshold = 0
  /\ evaluated = <<>>
  /\ records = <<>>
  /\ matrix = NoMatrix

\* Every operation is called on a table of at most MaxCols columns.
Callable == Len(table) <= MaxCols

\* A table-producing call: the result becomes the table later calls work on.
Returns(name, res) ==
  /\ Callable
  /\ op' = name
  /\ arg' = table
  /\ err' = res.err
  /\ ret' = res.table
  /\ table' = IF res.err = "none" THEN res.table ELSE table
  /\ threshold' = 0
  /\ evaluated' = <<>>
  /\ records' = <<>>
  /\ matrix' = NoMatrix

ExtractCategorical == Returns("extract_categorical_cols", extract_categorical_cols(table))

ExtractNumerical == Returns("extract_numerical_cols", extract_numerical_cols(table))

DropColsNoCardinality == Returns("drop_cols_no_cardinality", drop_cols_no_cardinality(table))

Standardize == Returns("standardize_numeric_variables", standardize_numeric_variables(table))

Correlation ==
  LET res == calculate_pair_wise_correlation(table)
  IN /\ Callable
     /\ op' = "calculate_pair_wise_correlation"
     /\ arg' = table
     /\ err' = res.err
     /\ matrix' = res.matrix
     /\ ret' = <<>>
     /\ threshold' = 0
     /\ evaluated' = <<>>
     /\ records' = <<>>
     /\ UNCHANGED table

\* The screener leaves the table alone and keeps nothing between calls: one
\* call on each loaded table is every call there is.
ChiSquare ==
  \E p_value_threshold \in 0..PScale, level \in Levels(table) :
    LET res == calculate_pair_wise_chi_square_test(table, p_value_threshold, level)
    IN /\ Callable
       /\ op = "load"
       /\ op' = "calculate_pair_wise_chi_square_test"
       /\ arg' = table
       /\ err' = "none"
       /\ threshold' = p_value_threshold
       /\ evaluated' = res.evaluated
       /\ records' = res.output_df
       /\ ret' = <<>>
       /\ matrix' = NoMatrix
       /\ UNCHANGED table

Next ==
  \/ ExtractCategorical
  \/ ExtractNumerical
  \/ DropColsNoCardinality
  \/ Standardize
  \/ Correlation

\* The classifier, the filter, the standardizer and the correlation engine,
\* called in any order, each table-producing call feeding the next.
Spec == Init /\ [][Next]_vars

InitScreen ==
  /\ Loaded(ScreenedData)
  /\ op = "load"
  /\ arg = <<>>
  /\ err = "none"
  /\ ret = <<>>
  /\ threshold = 0
  /\ evaluated = <<>>
  /\ records = <<>>
  /\ matrix = NoMatrix

NextScreen == ChiSquare

\* The association screener, which reads the table and leaves it alone.
SpecScreen == InitScreen /\ [][NextScreen]_vars

\* ------------------------------------------------------------------ claims
\* The position of the column labelled name in a table of unique names.
Pos(t, name) == CHOOSE i \in 1..Len(t) : t[i].name = name

\* out holds exactly the columns of in at the positions keep, each once, in
\* their order in in, with their storage type and row values.
IsSelection(out, in, keep) ==
  /\ Len(out) = Cardinality(keep)
  /\ \A k \in 1..Len(out) : \E i \in keep : out[k] = in[i]
  /\ \A k, l \in 1..Len(out) : k < l => Pos(in, out[k].name) < Pos(in, out[l].name)

IntegerAge(t) == \E i \in 1..Len(t) : t[i].name = "Age" /\ t[i].dtype = "int"

\* The values a column holds; a missing cell holds none.
DistinctValues(col) == {col.vals[r] : r \in {q \in 1..Len(col.vals) : ~col.vals[q].nan}}

\* C1: on a table with an integer-typed Age column, extract_numerical_cols
\* returns the float columns of the input in their original order, followed by
\* Age as the last column, and nothing else; every returned column carries the
\* input's row values.
C1_NumericalSubset ==
  (op = "extract_numerical_cols" /\ UniqueNames(arg) /\ IntegerAge(arg)) =>
     /\ err = "none"
     /\ Len(ret) >= 1
     /\ ret[Len(ret)] = arg[Pos(arg, "Age")]
     /\ IsSelection(SubSeq(ret, 1, Len(ret) - 1), arg,
                    {i \in 1..Len(arg) : arg[i].dtype = "float"})

\* An integer Age in front of an integer column and a float column: the result
\* is the float column, then Age.
C1_Witness ==
  /\ op = "extract_numerical_cols"
  /\ Len(arg) = 3
  /\ arg[1].name = "Age" /\ arg[1].dtype = "int"
  /\ arg[2].dtype = "int"
  /\ arg[3].dtype = "float"
  /\ Len(ret) = 2

\* C2: extract_categorical_cols returns exactly the integer-typed columns named
\* neither Age nor PatientID, in their original order, and raises nothing, also
\* on a table without an Age or a PatientID column.
C2_CategoricalSubset ==
  (op = "extract_categorical_cols" /\ UniqueNames(arg)) =>
     /\ err = "none"
     /\ IsSelection(ret, arg,
                    {i \in 1..Len(arg) : /\ arg[i].dtype = "int"
                                         /\ arg[i].name # "Age"
                                         /\ arg[i].name # "PatientID"})

\* A table with neither Age nor PatientID: two integer columns are returned
\* and a third column is left out.
C2_Witness ==
  /\ op = "extract_categorical_cols"
  /\ Len(arg) = 3
  /\ "Age" \notin NameSet(arg)
  /\ "PatientID" \notin NameSet(arg)
  /\ err = "none"
  /\ Len(ret) = 2

\* C3: drop_cols_no_cardinality keeps a column if and only if it holds at least
\* 2 distinct values (a missing cell holds no value), whatever its storage
\* type; the kept columns are in their original order with their values; it
\* raises nothing, and a result of zero columns is a result.
C3_DropConstantColumns ==
  (op = "drop_cols_no_cardinality" /\ UniqueNames(arg)) =>
     /\ err = "none"
     /\ IsSelection(ret, arg,
                    {i \in 1..Len(arg) : Cardinality(DistinctValues(arg[i])) >= 2})

\* A constant text column and a float column with one value and a gap are
\* dropped; the third column is kept.
C3_Witness ==
  /\ op = "drop_cols_no_cardinality"
  /\ Len(arg) = 3
  /\ \E i \in 1..3 : arg[i].dtype = "object"
  /\ \E i \in 1..3 : arg[i].dtype = "float" /\ arg[i].vals = GapVals
  /\ Len(ret) = 1

\* C4: PatientID is a column of neither extract_categorical_cols(table) nor
\* extract_numerical_cols(table), whatever the storage type of the table's
\* PatientID column.
C4_IdentifierExcluded ==
  (/\ op \in {"extract_categorical_cols", "extract_numerical_cols"}
   /\ UniqueNames(arg)
   /\ err = "none") => "PatientID" \notin NameSet(ret)

\* C5: on a table without an Age column, extract_numerical_cols raises the
\* missing-column error at the call and returns no table; so do
\* calculate_pair_wise_correlation and standardize_numeric_variables.
C5_MissingAge ==
  (/\ op \in {"extract_numerical_cols", "calculate_pair_wise_correlation",
              "standardize_numeric_variables"}
   /\ "Age" \notin NameSet(arg)) =>
     /\ err = "KeyError"
     /\ ret = <<>>
     /\ matrix = NoMatrix
     /\ table = arg

\* The standardizer called on float columns without Age.
C5_Witness ==
  /\ op = "standardize_numeric_variables"
  /\ "Age" \notin NameSet(arg)
  /\ Len(arg) >= 2
  /\ \A i \in 1..Len(arg) : arg[i].dtype = "float"
  /\ err = "KeyError"

\* The categorical subset of the table the screener was called on.
Categorical == extract_categorical_cols(arg).table

\* C6: with k categorical columns the screener tests exactly k(k-1)/2 pairs:
\* every unordered pair of distinct categorical columns exactly once, no
\* self-pair, no reversed duplicate, and in every tested pair and every
\* returned record first_col precedes second_col in the subset's column order.
C6_PairCount ==
  op = "calculate_pair_wise_chi_square_test" =>
    LET k == Len(Categorical)
        InOrder(row) == /\ row.first_col \in NameSet(Categorical)
                        /\ row.second_col \in NameSet(Categorical)
                        /\ Pos(Categorical, row.first_col) < Pos(Categorical, row.second_col)
    IN /\ 2 * Len(evaluated) = k * (k - 1)
       /\ \A a, b \in NameSet(Categorical) :
            a # b => Cardinality({i \in 1..Len(evaluated) :
                                    {evaluated[i].first_col, evaluated[i].second_col} = {a, b}}) = 1
       /\ \A i \in 1..Len(evaluated) : InOrder(evaluated[i])
       /\ \A i \in 1..Len(records) : InOrder(records[i])

\* Three categorical columns: three pairs tested, not all of them returned.
C6_Witness ==
  /\ op = "calculate_pair_wise_chi_square_test"
  /\ Len(evaluated) = 3
  /\ Len(records) = 2

\* The statistic the library computed for each pair of the last call.
LevelOf ==
  [ps \in {{evaluated[i].first_col, evaluated[i].second_col} : i \in 1..Len(evaluated)} |->
     LET i == CHOOSE j \in 1..Len(evaluated) :
                {evaluated[j].first_col, evaluated[j].second_col} = ps
     IN evaluated[i].chi_square_stat]

\* C7: the result holds a record for a tested pair if and only if the pair's
\* p-value is <= p_threshold (a p-value equal to the threshold is retained),
\* one record per retained pair; and on the same table a lower threshold never
\* returns more records.
C7_ThresholdFilter ==
  op = "calculate_pair_wise_chi_square_test" =>
    /\ \A i \in 1..Len(evaluated) :
         Cardinality({j \in 1..Len(records) : records[j] = evaluated[i]})
           = IF evaluated[i].p_value <= threshold THEN 1 ELSE 0
    /\ \A j \in 1..Len(records) : \E i \in 1..Len(evaluated) : records[j] = evaluated[i]
    /\ \A t \in 0..threshold :
         Len(calculate_pair_wise_chi_square_test(arg, t, LevelOf).output_df) <= Len(records)

\* A pair whose p-value equals the threshold is returned and a pair above it
\* is not.
C7_Witness ==
  /\ op = "calculate_pair_wise_chi_square_test"
  /\ threshold < PScale
  /\ \E j \in 1..Len(records) : records[j].p_value = threshold
  /\ \E i \in 1..Len(evaluated) : evaluated[i].p_value > threshold

\* C8: the returned records are in ascending lexicographic order of
\* (first_col, second_col), whatever the column order of the categorical
\* subset, whatever the threshold and whichever pairs passed the filter.
C8_SortedRecords ==
  op = "calculate_pair_wise_chi_square_test" =>
    \A i, j \in 1..Len(records) : i < j => RowLess(records[i], records[j])

\* The pairs were generated out of order and the last tested pair was
\* rejected: the two returned records are the first two tested, swapped.
C8_Witness ==
  /\ op = "calculate_pair_wise_chi_square_test"
  /\ Len(evaluated) = 3
  /\ evaluated[3].p_value > threshold
  /\ Len(records) = 2
  /\ records[1] = evaluated[2]
  /\ records[2] = evaluated[1]

\* A pair is degenerate when either column holds fewer than 2 distinct values.
Degenerate(first_col, second_col) ==
  \/ Cardinality(DistinctValues(Categorical[Pos(Categorical, first_col)])) < 2
  \/ Cardinality(DistinctValues(Categorical[Pos(Categorical, second_col)])) < 2

\* C9: the screener fabricates no statistic: when it returns normally, no
\* returned record is for a pair whose contingency table has fewer than 2
\* distinct values in either column, whatever the threshold.
C9_NoFabricatedStatistic ==
  (op = "calculate_pair_wise_chi_square_test" /\ err = "none") =>
    \A j \in 1..Len(records) : ~Degenerate(records[j].first_col, records[j].second_col)

\* C10: every table returned by extract_categorical_cols,
\* extract_numerical_cols, drop_cols_no_cardinality and
\* standardize_numeric_variables, on an input table or on each other's
\* outputs, has pairwise-distinct column names.
C10_UniqueColumnNames == UniqueNames(ret) /\ UniqueNames(table)

====
